---------------------------- MODULE Spec2Model ----------------------------
(***************************************************************************)
(* A model of pyfeedback (src/pyfeedback.py): the ExtendedPdb diff engine, *)
(* the mock registry and injector, and the AutomatedPdb session            *)
(* controller driven by the pdb/bdb debug engine.                          *)
(***************************************************************************)
EXTENDS Integers, Sequences, FiniteSets, TLC

(***************************************************************************)
(* Bounds of the model.                                                    *)
(***************************************************************************)
MaxVal == 2        \* binding values are 1..MaxVal
MaxKeys == 3       \* a snapshot holds at most MaxKeys bindings
MaxMocks == 2      \* Mock objects created in one run
MaxCalls == 2      \* calls the target program makes to mod's attributes
MaxItems == 2      \* comma-separated paths in one command argument
MaxPending == 1    \* filesystem events queued for the handler and not yet handled
MaxLaunches == 3   \* calls of _runmodule made by one ScriptFileHandler

Keys == {"a", "b", "c"}
Vals == 1..MaxVal
Absent == 0        \* the unused field of a Change Record

(***************************************************************************)
(* Python values used by the diff engine.  A dict is its items in          *)
(* insertion order (the order .items() iterates in); Optional[Dict] wraps  *)
(* it with the None case.                                                  *)
(***************************************************************************)
Items == [k : Keys, v : Vals]

IsDict(s) == \A i, j \in 1..Len(s) : i # j => s[i].k # s[j].k

Dicts == UNION {{s \in [1..n -> Items] : IsDict(s)} : n \in 0..MaxKeys}

None == [isNone |-> TRUE, items |-> <<>>]

Some(d) == [isNone |-> FALSE, items |-> d]

OptDicts == {None} \cup {Some(d) : d \in Dicts}

\* `k in d`
HasKey(d, k) == \E i \in 1..Len(d) : d[i].k = k

\* `d[k]`, for a key the dict holds
GetItem(d, k) == d[CHOOSE i \in 1..Len(d) : d[i].k = k].v

\* `if prev:` -- None and the empty dict are both falsy
Truthy(p) == ~p.isNone /\ Len(p.items) > 0

Created(k, v) == [tag |-> "Created", name |-> k, old |-> Absent, new |-> v]

Modified(k, old, new) == [tag |-> "Modified", name |-> k, old |-> old, new |-> new]

Deleted(k, old) == [tag |-> "Deleted", name |-> k, old |-> old, new |-> Absent]

(***************************************************************************)
(* ExtendedPdb._monitor_changes.  The result is the records handed to      *)
(* on_new_variable / on_variable_changed / on_variable_deleted so far and  *)
(* the exception that ended the call ("none" when it returned).            *)
(***************************************************************************)
RECURSIVE CurrentLoop(_, _, _, _)
\* for k, v in current.items(): ... (lines 95-99), prev a dict
CurrentLoop(prev, current, i, out) ==
    IF i > Len(current) THEN [records |-> out, exc |-> "none"]
    ELSE LET k == current[i].k
             v == current[i].v
             out1 == IF ~HasKey(prev, k) THEN Append(out, Created(k, v)) ELSE out
         IN  IF ~HasKey(prev, k)
             THEN [records |-> out1, exc |-> "KeyError"]      \* prev[k], line 98
             ELSE CurrentLoop(prev, current, i + 1,
                      IF v # GetItem(prev, k)
                      THEN Append(out1, Modified(k, GetItem(prev, k), v))
                      ELSE out1)

RECURSIVE PrevLoop(_, _, _, _)
\* for k, v in prev.items(): ... (lines 100-102), prev a dict
PrevLoop(prev, current, i, out) ==
    IF i > Len(prev) THEN [records |-> out, exc |-> "none"]
    ELSE PrevLoop(prev, current, i + 1,
             IF ~HasKey(current, prev[i].k)
             THEN Append(out, Deleted(prev[i].k, prev[i].v))
             ELSE out)

\* the second loop of _monitor_changes, lines 100-102, after the first
\* ended as `first`; it is outside the `if prev:` and None has no items()
DeletedLoop(prev, current, first) ==
    IF first.exc # "none" THEN first
    ELSE IF prev.isNone
         THEN [records |-> first.records, exc |-> "AttributeError"]
         ELSE PrevLoop(prev.items, current, 1, first.records)

_monitor_changes(prev, current) ==
    DeletedLoop(prev, current,
                IF Truthy(prev)
                THEN CurrentLoop(prev.items, current, 1, <<>>)
                ELSE [records |-> <<>>, exc |-> "none"])


\* `d[k] = v` on an insertion-ordered dict
SetItem(d, k, v) ==
    IF HasKey(d, k)
    THEN [i \in 1..Len(d) |-> IF d[i].k = k THEN [k |-> k, v |-> v] ELSE d[i]]
    ELSE Append(d, [k |-> k, v |-> v])

(***************************************************************************)
(* The target program's objects.  One importable module, "mod", with the   *)
(* attributes fn (a function returning x + 1) and zero (an attribute that  *)
(* exists and is falsy); mod has no attribute "nope" and there is no       *)
(* module "nomod".  A dotted path is the sequence of its components; no    *)
(* component is a prefix of another.  An object is a reference: Mock       *)
(* objects live in prog.mocks and are named by their index.                *)
(***************************************************************************)
Modules == {"mod"}

AttrOrder == <<"fn", "gn", "zero">>    \* dir(mod), sorted

ModuleObj == [kind |-> "module", id |-> 0]

FuncObj == [kind |-> "func", id |-> 0]

\* mod.gn, a second function of the module
OtherFuncObj == [kind |-> "func", id |-> 1]

FalsyObj == [kind |-> "falsy", id |-> 0]

NoneObj == [kind |-> "none", id |-> 0]

MockObj(i) == [kind |-> "mock", id |-> i]

\* bool(value): a function or a Mock is truthy, None and 0 are not
IsTrue(obj) == obj.kind \in {"module", "func", "mock"}

ItemPaths == {<<"mod", "fn">>, <<"mod", "zero">>, <<"mod", "nope">>, <<"nomod", "fn">>}

RegPaths == {<<"mod">>, <<"mod", "fn">>, <<"mod", "nope">>, <<"nomod">>}

\* the text of a comma-separated argument cut inside a later item: no module
Garbled == <<"mod.fn,mod">>

Args == {1, 5}                         \* the argument of a call mod.attr(x)

\* import_string(dotted_path), lines 31-50
import_string(prog, dotted_path) ==
    IF Len(dotted_path) = 1                       \* rsplit: ValueError, line 40
    THEN IF dotted_path[1] \in Modules
         THEN [exc |-> "none", obj |-> ModuleObj]
         ELSE [exc |-> "ImportError", obj |-> NoneObj]
    ELSE LET module_path == SubSeq(dotted_path, 1, Len(dotted_path) - 1)
             class_name == dotted_path[Len(dotted_path)]
         IN  IF ~(Len(module_path) = 1 /\ module_path[1] \in Modules)
             THEN [exc |-> "ImportError", obj |-> NoneObj]
             ELSE IF class_name \in DOMAIN prog.attrs
                  THEN [exc |-> "none", obj |-> prog.attrs[class_name]]
                  ELSE [exc |-> "ImportError", obj |-> NoneObj]

\* getattr(obj, attr, None) for the parent objects add_mocks meets
getattr(prog, obj, attr) ==
    IF obj.kind = "module" /\ attr \in DOMAIN prog.attrs THEN prog.attrs[attr]
    ELSE NoneObj

(***************************************************************************)
(* The operators below act on a world w = [dbg, prog, obs]: the debugger   *)
(* object's fields, the target program, and what the operation shows       *)
(* (printed lines, reports, the exception that ended it).                  *)
(***************************************************************************)
Raise(w, e) == [w EXCEPT !.obs.exc = e]

Message(w, msg) == [w EXCEPT !.obs.printed = Append(@, msg)]

\* a __getitem__ that takes the list handed to it as the slice [lo:]
list_slice(list, index) ==
    [exc |-> "none", value |-> SubSeq(list, index.lo + 1, Len(list))]

\* list.__getitem__(index): an int or a slice, anything else is a TypeError
list_getitem(list, index) ==
    IF index.type = "slice"
    THEN [exc |-> "none", value |-> SubSeq(list, index.lo + 1, Len(list))]
    ELSE [exc |-> "TypeError", value |-> <<>>]

RECURSIVE ReportCalls(_, _, _, _)
\* for call in new_calls: self.on_new_side_effect(name, call, mock), lines 107-108
ReportCalls(w, name, new_calls, i) ==
    IF i > Len(new_calls) THEN w
    ELSE ReportCalls([w EXCEPT !.obs.reported =
                          Append(@, [name |-> name, call |-> new_calls[i]])],
                     name, new_calls, i + 1)

\* self._mock_calls.get(name, []), line 105
prev_calls(w, name) ==
    IF HasKey(w.dbg._mock_calls, name) THEN GetItem(w.dbg._mock_calls, name)
    ELSE <<>>

\* lines 107-109 of _check_mock, once new_calls is evaluated
ReportNew(w, name, call_args_list, new_calls) ==
    IF new_calls.exc # "none" THEN Raise(w, new_calls.exc)
    ELSE [ReportCalls(w, name, new_calls.value, 1)
             EXCEPT !.dbg._mock_calls = SetItem(@, name, call_args_list)]

\* ExtendedPdb._check_mock, lines 104-109; the index handed to
\* call_args_list[...] is itself a list, call_args_list[len(prev_calls):]
_check_mock(w, name, mock) ==
    ReportNew(w, name, w.prog.mocks[mock.id].calls,
              list_getitem(w.prog.mocks[mock.id].calls,
                           [type |-> "list", lo |-> Len(prev_calls(w, name))]))

RECURSIVE AttrMocks(_, _, _)
\* for name in dir(obj): ... yield f'{arg}.{name}', attr, lines 116-120
AttrMocks(prog, arg, i) ==
    IF i > Len(AttrOrder) THEN <<>>
    ELSE LET name == AttrOrder[i]
             attr == getattr(prog, ModuleObj, name)
         IN  (IF attr.kind = "mock"
              THEN <<[name |-> Append(arg, name), mock |-> attr]>> ELSE <<>>)
             \o AttrMocks(prog, arg, i + 1)

\* ExtendedPdb._find_mocks_in_object, lines 111-120
_find_mocks_in_object(prog, arg, obj) ==
    IF obj.kind = "mock" THEN <<[name |-> arg, mock |-> obj]>>
    ELSE IF obj.kind = "module" THEN AttrMocks(prog, arg, 1)
    ELSE <<>>                         \* a function or an int has no Mock attribute

RECURSIVE _find_mocks_from(_, _)
\* ExtendedPdb._find_mocks, lines 122-124
_find_mocks_from(w, i) ==
    IF i > Len(w.dbg._modules_with_mocks) THEN <<>>
    ELSE _find_mocks_in_object(w.prog, w.dbg._modules_with_mocks[i].k,
                               w.dbg._modules_with_mocks[i].v)
         \o _find_mocks_from(w, i + 1)

_find_mocks(w) == _find_mocks_from(w, 1)

RECURSIVE CheckEach(_, _, _)
CheckEach(w, found, i) ==
    IF i > Len(found) \/ w.obs.exc # "none" THEN w
    ELSE CheckEach(_check_mock(w, found[i].name, found[i].mock), found, i + 1)

\* ExtendedPdb._check_side_effects, lines 126-128
_check_side_effects(w) == CheckEach(w, _find_mocks(w), 1)

\* `return obj`, with the object returned noted in obs.obj
Return(w, obj) == [w |-> [w EXCEPT !.obs.obj = obj], obj |-> obj]

\* lines 132-134, once import_string(path) ended as r
Imported(w, path, r) ==
    IF r.exc # "none"
    THEN [w |-> Raise(w, r.exc), obj |-> NoneObj]
    ELSE Return([w EXCEPT !.dbg._modules_with_mocks = SetItem(@, path, r.obj)], r.obj)

\* _register_mock_module_from_string without its `if path not in` test
register_unguarded(w, path) ==
    Imported([w EXCEPT !.obs.imports = @ + 1], path, import_string(w.prog, path))

\* ExtendedPdb._register_mock_module_from_string, lines 130-135
_register_mock_module_from_string(w, path) ==
    IF ~HasKey(w.dbg._modules_with_mocks, path)
    THEN Imported([w EXCEPT !.obs.imports = @ + 1], path, import_string(w.prog, path))
    ELSE Return(w, GetItem(w.dbg._modules_with_mocks, path))

(***************************************************************************)
(* Strings of add_mocks.  attr is the last component of the item, and      *)
(* module_string is the text of the WHOLE argument before the first        *)
(* ".attr": a path when that lies in the first item, text holding a comma  *)
(* otherwise.                                                              *)
(***************************************************************************)
Occurs(item, attr) == \E p \in 2..Len(item) : item[p] = attr

FirstPos(item, attr) ==
    CHOOSE p \in 2..Len(item) :
        item[p] = attr /\ \A q \in 2..(p - 1) : item[q] # attr

\* arg.split(f'.{attr}')[0], line 153
ModuleString(arg, attr) ==
    IF Occurs(arg[1], attr) THEN SubSeq(arg[1], 1, FirstPos(arg[1], attr) - 1)
    ELSE IF Len(arg) = 1 THEN arg[1]
    ELSE Garbled

\* setattr(obj, attr, mock_class(side_effect=side_effect)), line 159
InstallMock(w, attr, side_effect) ==
    [w EXCEPT !.prog.mocks = Append(@, [side_effect |-> side_effect, calls |-> <<>>]),
              !.prog.attrs[attr] = MockObj(Len(w.prog.mocks) + 1)]

\* lines 156-162, with value = getattr(obj, attr, None)
Replace(w, attr, value, keep_functionality) ==
    IF IsTrue(value)
    THEN Message(InstallMock(w, attr, IF keep_functionality THEN value ELSE NoneObj),
                 [text |-> "Replaced", attr |-> attr])
    ELSE Message(w, [text |-> "There is no attribute", attr |-> attr])

\* lines 155-162, once the parent object is registered as r.obj
ReplaceIn(r, attr, keep_functionality) ==
    IF r.w.obs.exc # "none" THEN r.w
    ELSE Replace(r.w, attr, getattr(r.w.prog, r.obj, attr), keep_functionality)

\* item.split('.')[-1], line 152
LastName(item) == item[Len(item)]

RECURSIVE AddMocksLoop(_, _, _, _)
\* for item in arg.split(','): ..., lines 151-162
AddMocksLoop(w, arg, keep_functionality, i) ==
    IF i > Len(arg) \/ w.obs.exc # "none" THEN w
    ELSE AddMocksLoop(
             ReplaceIn(_register_mock_module_from_string(
                           w, ModuleString(arg, LastName(arg[i]))),
                       LastName(arg[i]), keep_functionality),
             arg, keep_functionality, i + 1)

\* ExtendedPdb.add_mocks, lines 150-162
add_mocks(w, arg, keep_functionality) == AddMocksLoop(w, arg, keep_functionality, 1)

\* ExtendedPdb.do_pf_add_functional_mocks, lines 164-165
do_pf_add_functional_mocks(w, arg) == add_mocks(w, arg, TRUE)

\* ExtendedPdb.do_pf_add_mocks, lines 167-168
do_pf_add_mocks(w, arg) == add_mocks(w, arg, FALSE)

RECURSIVE RegisterLoop(_, _, _)
RegisterLoop(w, arg, i) ==
    IF i > Len(arg) \/ w.obs.exc # "none" THEN w
    ELSE RegisterLoop(_register_mock_module_from_string(w, arg[i]).w, arg, i + 1)

\* ExtendedPdb.do_pf_register_mocks, lines 170-172
do_pf_register_mocks(w, arg) == RegisterLoop(w, arg, 1)

\* ExtendedPdb.do_pf_side_effects, lines 174-175
do_pf_side_effects(w) == _check_side_effects(w)

RECURSIVE SideEffectLoop(_, _, _, _)
\* for name, mock in ...: self._check_mock(arg, mock), lines 147-148
SideEffectLoop(w, arg, found, i) ==
    IF i > Len(found) \/ w.obs.exc # "none" THEN w
    ELSE SideEffectLoop(_check_mock(w, arg, found[i].mock), arg, found, i + 1)

\* ExtendedPdb.do_pf_side_effect, lines 145-148
CheckIn(r, arg) ==
    IF r.w.obs.exc # "none" THEN r.w
    ELSE SideEffectLoop(r.w, arg, _find_mocks_in_object(r.w.prog, arg, r.obj), 1)

do_pf_side_effect(w, arg) == CheckIn(_register_mock_module_from_string(w, arg), arg)

\* the on_new_variable / on_variable_changed / on_variable_deleted lines
Changes(w, r) == [w EXCEPT !.obs.changes = @ \o r.records]

\* self._locals = snapshot.copy(), lines 139 and 143: reached only when
\* _monitor_changes, which ended as r, returned
StoreLocals(w, r, snapshot) ==
    IF r.exc # "none" THEN Raise(Changes(w, r), r.exc)
    ELSE [Changes(w, r) EXCEPT !.dbg._locals = Some(snapshot)]

\* ExtendedPdb.do_pf_globals_changes, lines 137-139
do_pf_globals_changes(w) ==
    StoreLocals(w, _monitor_changes(w.dbg._globals, w.prog.f_globals),
                w.prog.f_globals)

\* ExtendedPdb.do_pf_locals_changes, lines 141-143
do_pf_locals_changes(w) ==
    StoreLocals(w, _monitor_changes(w.dbg._locals, w.prog.f_globals),
                w.prog.f_locals)

(***************************************************************************)
(* A call obj(x) made by the target program.  A Mock records the call and  *)
(* then runs its side_effect, if it has one, returning that result;        *)
(* without one it returns its return_value, a Mock.  fn returns x + 1.     *)
(***************************************************************************)
RECURSIVE CallObj(_, _, _)
CallObj(w, obj, x) ==
    IF obj.kind = "func"
    THEN [w EXCEPT !.obs.origRuns = @ + 1, !.obs.ret = [kind |-> "int", v |-> x + 1]]
    ELSE IF obj.kind = "mock"
    THEN LET w1 == [w EXCEPT !.prog.mocks[obj.id].calls = Append(@, x)]
             side_effect == w.prog.mocks[obj.id].side_effect
         IN  IF side_effect.kind = "none"
             THEN [w1 EXCEPT !.obs.ret = [kind |-> "mock", v |-> 0]]
             ELSE CallObj(w1, side_effect, x)
    ELSE Raise(w, "TypeError")          \* 0 is not callable

(***************************************************************************)
(* Command lines.  A line is a command name and its argument text; the     *)
(* argument of the start-up tbreak is f"{function}": the text of a str, or *)
(* the repr of a list when a list is passed for function.                  *)
(***************************************************************************)
PyStr(s) == [type |-> "str", s |-> s, l |-> <<>>]

PyList(l) == [type |-> "list", s |-> "", l |-> l]

Text(s) == [kind |-> "text", s |-> s, l |-> <<>>]

ListRepr(l) == [kind |-> "repr", s |-> "", l |-> l]

\* the argument of a pf_* mock command: comma-separated dotted paths
PathList(l) == [kind |-> "paths", s |-> "", l |-> l]

\* "{x}" in an f-string: str(x)
Format(x) == IF x.type = "str" THEN Text(x.s) ELSE ListRepr(x.l)

RcLine(name, arg) == [name |-> name, arg |-> arg]

Cmd(name) == RcLine(name, Text(""))

Functions == {"f"}                     \* the functions of the debugged script

\* the do_* methods a line's first word can name: ExtendedPdb's (lines
\* 137-175) and the ones of Pdb that the controller and the operator use
ExtendedPdbCommands ==
    {"pf_globals_changes", "pf_locals_changes", "pf_side_effect",
     "pf_add_functional_mocks", "pf_add_mocks", "pf_register_mocks",
     "pf_side_effects"}

PdbCommands == {"tbreak", "cont", "next", "step", "args", "quit"}

ResumeCommands == {"cont", "next", "step"}

\* cmd.Cmd.onecmd: getattr(self, 'do_' + cmd), else self.default(line)
Resolve(name) ==
    IF name \in ExtendedPdbCommands \cup PdbCommands THEN name ELSE "default"

\* Pdb.do_tbreak: a temporary breakpoint at a function of the script, or an
\* error line when the argument names none
do_tbreak(w, arg) ==
    IF arg.kind = "text" /\ arg.s \in Functions
    THEN [w EXCEPT !.dbg.breaks = @ \cup {arg.s}]
    ELSE Message(w, [text |-> "*** not a function", attr |-> ""])

\* Pdb.do_continue: bdb.set_continue stops tracing when no breakpoint is left
do_continue(w) ==
    [w EXCEPT !.dbg.stopinfo = "none",
              !.dbg.tracing = (w.dbg.breaks # {})]

\* Pdb.do_next: bdb.set_next(curframe)
do_next(w) == [w EXCEPT !.dbg.stopinfo = "frame"]

\* Pdb.do_step: bdb.set_step()
do_step(w) == [w EXCEPT !.dbg.stopinfo = "all"]

\* Pdb.do_quit: bdb.set_quit()
do_quit(w) == [w EXCEPT !.dbg.quitting = TRUE, !.dbg.tracing = FALSE]

\* Pdb.default: the line is run as Python in the frame; an undefined name is
\* reported, not raised
default(w) == Message(w, [text |-> "*** NameError", attr |-> ""])

\* Pdb.onecmd; stop is the command's return value (true: leave the pause)
onecmd(w, line) ==
    LET cmd == Resolve(line.name)
        w1 == [w EXCEPT !.obs.ran = Append(@, cmd)]
        go(x) == [w |-> x, stop |-> TRUE]
        stay(x) == [w |-> x, stop |-> FALSE]
    IN  CASE cmd = "tbreak" -> stay(do_tbreak(w1, line.arg))
          [] cmd = "cont" -> go(do_continue(w1))
          [] cmd = "next" -> go(do_next(w1))
          [] cmd = "step" -> go(do_step(w1))
          [] cmd = "quit" -> go(do_quit(w1))
          [] cmd = "args" -> stay(w1)
          [] cmd = "pf_side_effects" -> stay(do_pf_side_effects(w1))
          [] cmd = "pf_side_effect" -> stay(do_pf_side_effect(w1, line.arg.l[1]))
          [] cmd = "pf_add_mocks" -> stay(do_pf_add_mocks(w1, line.arg.l))
          [] cmd = "pf_add_functional_mocks" ->
                 stay(do_pf_add_functional_mocks(w1, line.arg.l))
          [] cmd = "pf_register_mocks" -> stay(do_pf_register_mocks(w1, line.arg.l))
          [] cmd = "pf_locals_changes" -> stay(do_pf_locals_changes(w1))
          [] cmd = "pf_globals_changes" -> stay(do_pf_globals_changes(w1))
          [] OTHER -> stay(default(w1))

RECURSIVE RunLines(_, _), AfterCmd(_, _)
\* while rcLines: ... of Pdb.execRcLines: a command that returns true ends
\* the pause and the lines left are kept for the next one
RunLines(w, lines) ==
    IF lines = <<>> THEN [w |-> w, stop |-> FALSE]
    ELSE AfterCmd(onecmd(w, Head(lines)), Tail(lines))

AfterCmd(r, rest) ==
    IF r.w.obs.exc # "none" THEN r
    ELSE IF r.stop
    THEN [w |-> [r.w EXCEPT !.dbg.rcLines = @ \o rest], stop |-> TRUE]
    ELSE RunLines(r.w, rest)

\* Pdb.execRcLines
execRcLines(w) ==
    IF w.dbg.rcLines = <<>> THEN [w |-> w, stop |-> FALSE]
    ELSE RunLines([w EXCEPT !.dbg.rcLines = <<>>], w.dbg.rcLines)

\* AutomatedPdb._cmdloop, lines 185-187; ExtendedPdb keeps Pdb._cmdloop
CmdloopRuns(dbg) == dbg.class = "ExtendedPdb" \/ dbg.launch_cmdloop

\* Pdb.interaction: setup() runs the queued lines, then _cmdloop() unless a
\* line; cmd.Cmd.cmdloop first binds completekey + ": complete" when the
\* key is truthy and readline imports, which a list in its place fails
EnterCmdloop(r) ==
    IF r.w.obs.exc # "none" \/ r.stop \/ ~CmdloopRuns(r.w.dbg) THEN r.w
    ELSE IF r.w.dbg.readline /\ r.w.dbg.completekey = "list"
    THEN Raise(r.w, "TypeError")
    ELSE [r.w EXCEPT !.obs.prompt = TRUE]

interaction(w) == EnterCmdloop(execRcLines([w EXCEPT !.obs.interacted = TRUE]))

\* Pdb.user_call: only a frame the engine stops in is a pause
Pdb_user_call(w, stop_here) ==
    LET w1 == [w EXCEPT !.obs.base = "user_call"]
    IN  IF w.dbg._wait_for_mainpyfile THEN w1
        ELSE IF stop_here THEN interaction(w1) ELSE w1

\* Pdb.user_line
Pdb_user_line(w) ==
    interaction([w EXCEPT !.obs.base = "user_line",
                          !.dbg._wait_for_mainpyfile = FALSE])

\* Pdb.user_return
Pdb_user_return(w) ==
    LET w1 == [w EXCEPT !.obs.base = "user_return"]
    IN  IF w.dbg._wait_for_mainpyfile THEN w1 ELSE interaction(w1)

\* self.rcLines.extend(lines), with what the handler added noted
Extend(w, lines) ==
    [w EXCEPT !.dbg.rcLines = @ \o lines,
              !.obs.enqueued = @ \o [i \in 1..Len(lines) |-> lines[i].name]]

\* the lines user_call queues, lines 191-193
CallLines(dbg) ==
    <<Cmd("args"), Cmd("pf_side_effects")>>
    \o (IF ~dbg.launch_cmdloop
        THEN <<Cmd(IF dbg.all_lines THEN "next" ELSE "cont")>> ELSE <<>>)

\* a user_line that queues its resume command twice
LineLines_twice(dbg) ==
    <<Cmd("args"), Cmd("do_pf_locals_changes"), Cmd("do_pf_globals_changes"),
      Cmd("pf_side_effects")>>
    \o (IF ~dbg.launch_cmdloop THEN <<Cmd("next"), Cmd("next")>> ELSE <<>>)

\* the lines user_line queues, lines 198-200
LineLines(dbg) ==
    <<Cmd("args"), Cmd("do_pf_locals_changes"), Cmd("do_pf_globals_changes"),
      Cmd("pf_side_effects")>>
    \o (IF ~dbg.launch_cmdloop THEN <<Cmd("next")>> ELSE <<>>)

\* the lines user_return queues, lines 205-207
ReturnLines(dbg) ==
    <<Cmd("args"), Cmd("pf_side_effects")>>
    \o (IF ~dbg.launch_cmdloop THEN <<Cmd("cont")>> ELSE <<>>)

\* AutomatedPdb.user_call, lines 189-194
AutomatedPdb_user_call(w, stop_here) ==
    Pdb_user_call(IF w.dbg.rcLines = <<>> THEN Extend(w, CallLines(w.dbg)) ELSE w,
                  stop_here)

\* AutomatedPdb.user_line, lines 196-201
AutomatedPdb_user_line(w) ==
    Pdb_user_line(IF w.dbg.rcLines = <<>> THEN Extend(w, LineLines(w.dbg)) ELSE w)

\* AutomatedPdb.user_return, lines 203-208: ends in super().user_line
AutomatedPdb_user_return(w) ==
    Pdb_user_line(IF w.dbg.rcLines = <<>> THEN Extend(w, ReturnLines(w.dbg)) ELSE w)

user_call(w, stop_here) ==
    IF w.dbg.class = "AutomatedPdb" THEN AutomatedPdb_user_call(w, stop_here)
    ELSE Pdb_user_call(w, stop_here)

user_line(w) ==
    IF w.dbg.class = "AutomatedPdb" THEN AutomatedPdb_user_line(w)
    ELSE Pdb_user_line(w)

user_return(w) ==
    IF w.dbg.class = "AutomatedPdb" THEN AutomatedPdb_user_return(w)
    ELSE Pdb_user_return(w)

(***************************************************************************)
(* Construction.  Pdb.__init__ leaves rcLines empty (no .pdbrc file is     *)
(* read) and the engine idle.                                              *)
(***************************************************************************)
\* ExtendedPdb.__init__, lines 53-61; it has no launch_cmdloop / all_lines
ExtendedPdb_init ==
    [class |-> "ExtendedPdb", rcLines |-> <<>>,
     launch_cmdloop |-> FALSE, all_lines |-> FALSE,
     _locals |-> None, _globals |-> None,
     _modules_with_mocks |-> <<>>, _mock_calls |-> <<>>,
     stopinfo |-> "all", breaks |-> {}, tracing |-> FALSE,
     _wait_for_mainpyfile |-> FALSE, quitting |-> FALSE,
     completekey |-> "tab", readline |-> TRUE]

\* AutomatedPdb.__init__, lines 179-183
AutomatedPdb_init(function, cmdloop, all_lines) ==
    [ExtendedPdb_init EXCEPT
        !.class = "AutomatedPdb",
        !.rcLines = <<RcLine("tbreak", Format(function)), Cmd("cont")>>,
        !.launch_cmdloop = FALSE,
        !.all_lines = TRUE]

\* run_configuration, lines 241-243: dbg = pdb_class(initial_commands, commands)
\* ExtendedPdb hands both lists on to Pdb.__init__(completekey, stdin)
run_configuration(interactive, tbreakpoints, commands) ==
    LET initial_commands ==
            [i \in 1..Len(tbreakpoints) |-> RcLine("tbreak", Text(tbreakpoints[i]))]
    IN  IF interactive
        THEN [ExtendedPdb_init EXCEPT
                 !.completekey = IF initial_commands = <<>> THEN "empty list"
                                 ELSE "list"]
        ELSE AutomatedPdb_init(PyList(initial_commands), commands # <<>>, TRUE)

(***************************************************************************)
(* State.                                                                  *)
(***************************************************************************)
VARIABLES
    prev,       \* _monitor_changes argument: the previous snapshot or None
    current,    \* _monitor_changes argument: the current snapshot
    diff,       \* the outcome of that call; status "pending" before it
    cfg,        \* how the debugger was constructed, and with which arguments
    dbg,        \* the debugger object: its fields and the engine's
    prog,       \* the debugged program: mod's attributes, Mocks, frame, calls
    obs,        \* what the last operation did and showed
    session,    \* constructed, running, prompt, finished, quit or crashed
    first,      \* where the first pause that ran queued reports was
    watch       \* the ScriptFileHandler, the events queued for it, its launches

diffVars == <<prev, current, diff>>

sessionVars == <<cfg, dbg, prog, obs, session, first>>

vars == <<prev, current, diff, cfg, dbg, prog, obs, session, first, watch>>

World == [dbg |-> dbg, prog |-> prog, obs |-> obs]

ObsInit ==
    [op |-> "none", arg |-> <<>>, exc |-> "none",
     printed |-> <<>>, reported |-> <<>>, changes |-> <<>>,
     imports |-> 0, obj |-> NoneObj,
     origRuns |-> 0, ret |-> [kind |-> "none", v |-> 0],
     pause |-> "none", base |-> "none", hit |-> "none", wasEmpty |-> FALSE,
     enqueued |-> <<>>, ran |-> <<>>, interacted |-> FALSE, prompt |-> FALSE]

FrameDicts == {<<>>, <<[k |-> "a", v |-> 1]>>}

ProgInit ==
    [attrs |-> [a \in {"fn", "zero"} |-> IF a = "fn" THEN FuncObj ELSE FalsyObj],
     mocks |-> <<>>, f_locals |-> <<>>, f_globals |-> <<>>, ncalls |-> 0]

\* the ways a debugger is made: run_configuration, or AutomatedPdb directly
Configs ==
    {[via |-> "run_configuration", interactive |-> i, all_lines |-> TRUE,
      tbreakpoints |-> tb, readline |-> r] :
         i \in BOOLEAN, tb \in {<<>>, <<"f">>}, r \in BOOLEAN}
    \cup
    {[via |-> "AutomatedPdb", interactive |-> i, all_lines |-> a,
      tbreakpoints |-> <<"f">>, readline |-> TRUE] : i \in BOOLEAN, a \in BOOLEAN}

\* readline: whether "import readline" succeeds in the interpreter
Construct(c) ==
    [(IF c.via = "run_configuration"
      THEN run_configuration(c.interactive, c.tbreakpoints, <<>>)
      ELSE AutomatedPdb_init(PyStr(c.tbreakpoints[1]), c.interactive, c.all_lines))
     EXCEPT !.readline = c.readline]

\* no ScriptFileHandler: nothing scheduled, no event, no launch by a handler
WatchNone ==
    [handler |-> "none", observer |-> "none", module |-> "", pending |-> <<>>,
     launches |-> 0, deleted |-> FALSE, overlap |-> FALSE,
     by |-> "none", when |-> "none", steps |-> <<>>, queue |-> <<>>,
     was |-> "", launched |-> ""]

DiffIdle ==
    /\ prev = None
    /\ current = <<>>
    /\ diff = [status |-> "idle", records |-> <<>>, exc |-> "none"]

SessionIdle ==
    /\ cfg = [via |-> "none", interactive |-> FALSE, all_lines |-> TRUE,
              tbreakpoints |-> <<>>, readline |-> TRUE]
    /\ dbg = ExtendedPdb_init
    /\ prog = ProgInit
    /\ obs = ObsInit
    /\ session = "idle"
    /\ first = "none"
    /\ watch = WatchNone

(***************************************************************************)
(* The diff engine on its own: every pair of snapshots.                    *)
(***************************************************************************)
DiffInit ==
    /\ prev \in OptDicts
    /\ current \in Dicts
    /\ diff = [status |-> "pending", records |-> <<>>, exc |-> "none"]
    /\ SessionIdle

\* one call of _monitor_changes(prev, current, desc)
MonitorChanges ==
    /\ diff.status = "pending"
    /\ LET r == _monitor_changes(prev, current)
       IN  diff' = [status |-> IF r.exc = "none" THEN "returned" ELSE "raised",
                    records |-> r.records, exc |-> r.exc]
    /\ UNCHANGED <<prev, current, watch>>
    /\ UNCHANGED sessionVars

DiffNext == MonitorChanges

SpecDiff == DiffInit /\ [][DiffNext]_vars

(***************************************************************************)
(* The session.                                                            *)
(***************************************************************************)
Init ==
    /\ cfg \in Configs
    /\ dbg = Construct(cfg)
    /\ prog = ProgInit
    /\ obs = ObsInit
    /\ session = "constructed"
    /\ first = "none"
    /\ watch = WatchNone
    /\ DiffIdle

\* the world an operation starts from: what the last one showed is cleared
Fresh(op, arg) == [World EXCEPT !.obs = [ObsInit EXCEPT !.op = op, !.arg = arg]]

\* a command typed at a pause keeps the pause it is typed at
AtPause(op, arg) ==
    [World EXCEPT !.obs = [ObsInit EXCEPT !.op = op, !.arg = arg,
                                          !.pause = obs.pause, !.base = obs.base,
                                          !.hit = obs.hit]]

\* an exception leaves the run, quit ends it (BdbQuit), a prompt waits
Outcome(w, otherwise) ==
    IF w.obs.exc # "none" THEN "crashed"
    ELSE IF w.dbg.quitting THEN "quit"
    ELSE IF w.obs.prompt THEN "prompt"
    ELSE otherwise

ReportCommands ==
    {"args", "pf_side_effects", "pf_side_effect", "pf_locals_changes",
     "pf_globals_changes"}

\* whether this operation was a pause whose queued lines ran a report
RanReports(o) ==
    o.pause # "none" /\ o.op # "operator"
    /\ \E i \in 1..Len(o.ran) : o.ran[i] \in ReportCommands

\* the function whose first line is the designated entry
EntryFunction == IF cfg.tbreakpoints = <<>> THEN "none" ELSE cfg.tbreakpoints[1]

FirstReports(o) ==
    IF first # "none" \/ ~RanReports(o) THEN first
    ELSE IF o.hit # "none" /\ o.hit = EntryFunction THEN "entry"
    ELSE "elsewhere"

Becomes(w, otherwise) ==
    /\ dbg' = w.dbg
    /\ prog' = w.prog
    /\ obs' = w.obs
    /\ session' = Outcome(w, otherwise)
    /\ first' = FirstReports(w.obs)
    /\ UNCHANGED <<cfg, prev, current, diff, watch>>

ArgLists == UNION {[1..n -> ItemPaths] : n \in 1..MaxItems}

RoomFor(arg) == Len(prog.mocks) + Len(arg) <= MaxMocks

\* run_configuration, lines 244-245: dbg.do_pf_add_mocks(arg)
AddMocks ==
    /\ session = "constructed"
    /\ \E arg \in ArgLists :
          /\ RoomFor(arg)
          /\ Becomes(do_pf_add_mocks(Fresh("pf_add_mocks", arg), arg), session)

\* run_configuration, lines 246-247: dbg.do_pf_add_functional_mocks(arg)
AddFunctionalMocks ==
    /\ session = "constructed"
    /\ \E arg \in ArgLists :
          /\ RoomFor(arg)
          /\ Becomes(do_pf_add_functional_mocks(
                         Fresh("pf_add_functional_mocks", arg), arg), session)

\* run_configuration, lines 248-249: dbg.do_pf_register_mocks(arg)
RegisterMocks ==
    /\ session = "constructed"
    /\ \E path \in RegPaths :
          Becomes(do_pf_register_mocks(Fresh("pf_register_mocks", <<path>>),
                                       <<path>>), session)

\* run_configuration, line 254: dbg._runmodule(script); Pdb._runmodule waits
\* for the script's first line and bdb.run resets the engine and traces
Launch ==
    /\ session = "constructed"
    /\ Becomes([Fresh("_runmodule", <<>>) EXCEPT
                    !.dbg._wait_for_mainpyfile = TRUE,
                    !.dbg.stopinfo = "all",
                    !.dbg.tracing = TRUE,
                    !.dbg.quitting = FALSE], "running")

\* the engine's event as the handler meets it
Event(pause, hit) ==
    [Fresh(pause, <<>>) EXCEPT !.obs.pause = pause, !.obs.hit = hit,
                               !.obs.wasEmpty = (dbg.rcLines = <<>>)]

\* bdb.dispatch_call: a call into a frame the engine stops in, or into a
\* file that holds a breakpoint
UserCall ==
    /\ session = "running"
    /\ dbg.tracing
    /\ dbg.stopinfo = "all" \/ dbg.breaks # {}
    /\ Becomes(user_call(Event("call", "none"), dbg.stopinfo = "all"), "running")

\* bdb.dispatch_line: a line the engine stops at
UserLine ==
    /\ session = "running"
    /\ dbg.tracing
    /\ dbg.stopinfo \in {"all", "frame"}
    /\ Becomes(user_line(Event("line", "none")), "running")

\* bdb.dispatch_line at a breakpoint; a temporary one is cleared by the hit
BreakpointHit ==
    /\ session = "running"
    /\ dbg.tracing
    /\ ~dbg._wait_for_mainpyfile
    /\ \E b \in dbg.breaks :
          Becomes(user_line([Event("line", b) EXCEPT !.dbg.breaks = @ \ {b}]),
                  "running")

\* bdb.dispatch_return after user_return: the frame 'next' stopped in is gone
StepOut(w) == IF w.dbg.stopinfo = "frame" THEN [w EXCEPT !.dbg.stopinfo = "all"] ELSE w

\* bdb.dispatch_return: the return of a frame the engine stops in; after a
\* 'next' given at this pause the engine steps on in the caller
UserReturn ==
    /\ session = "running"
    /\ dbg.tracing
    /\ ~dbg._wait_for_mainpyfile
    /\ dbg.stopinfo \in {"all", "frame"}
    /\ Becomes(StepOut(user_return(Event("return", "none"))), "running")

OperatorLines ==
    {Cmd(c) : c \in {"args", "pf_side_effects", "pf_locals_changes",
                     "pf_globals_changes", "next", "step", "cont", "quit"}}
    \cup {RcLine("pf_side_effect", PathList(<<p>>)) : p \in {<<"mod">>, <<"mod", "fn">>}}
    \cup {RcLine(c, PathList(<<p>>)) :
              c \in {"pf_add_mocks", "pf_add_functional_mocks"},
              p \in {<<"mod", "fn">>, <<"mod", "zero">>}}

\* cmd.Cmd.cmdloop: the prompt comes back unless the command returned true
Prompt(r) == [r.w EXCEPT !.obs.prompt = ~r.stop]

\* one command typed at the (Pdb) prompt of Pdb._cmdloop
OperatorCmd ==
    /\ session = "prompt"
    /\ \E line \in OperatorLines :
          /\ line.name \in {"pf_add_mocks", "pf_add_functional_mocks"}
                => RoomFor(line.arg.l)
          /\ Becomes(Prompt(onecmd(AtPause("operator", <<line.name>>), line)),
                     "running")

\* the debugged program calls mod.attr(x)
Call ==
    /\ session = "running"
    /\ prog.ncalls < MaxCalls
    /\ \E attr \in DOMAIN prog.attrs, x \in Args :
          /\ prog.attrs[attr].kind \in {"func", "mock"}
          /\ Becomes(CallObj([Fresh("program_call", <<attr, x>>) EXCEPT !.prog.ncalls = @ + 1],
                              prog.attrs[attr], x), "running")

\* the debugged program rebinds names in the current frame
Rebind ==
    /\ session = "running"
    /\ \E l \in FrameDicts, g \in FrameDicts :
          /\ <<l, g>> # <<prog.f_locals, prog.f_globals>>
          /\ prog' = [prog EXCEPT !.f_locals = l, !.f_globals = g]
    /\ obs' = [ObsInit EXCEPT !.op = "rebind"]
    /\ UNCHANGED <<cfg, dbg, session, first, prev, current, diff, watch>>

\* the debugged program runs to its end
Finish ==
    /\ session = "running"
    /\ session' = "finished"
    /\ obs' = [ObsInit EXCEPT !.op = "finish"]
    /\ UNCHANGED <<cfg, dbg, prog, first, prev, current, diff, watch>>

Next ==
    \/ AddMocks
    \/ AddFunctionalMocks
    \/ RegisterMocks
    \/ Launch
    \/ UserCall
    \/ UserLine
    \/ BreakpointHit
    \/ UserReturn
    \/ OperatorCmd
    \/ Call
    \/ Rebind
    \/ Finish

Spec == Init /\ [][Next]_vars

(***************************************************************************)
(* A session on a module with two functions, fn and gn, started            *)
(* interactively with no breakpoint: Mocks are installed on either         *)
(* function and the operator checks side effects at the prompt.            *)
(***************************************************************************)
TwoFunctions ==
    [ProgInit EXCEPT !.attrs = [a \in {"fn", "gn", "zero"} |->
                                   IF a = "fn" THEN FuncObj
                                   ELSE IF a = "gn" THEN OtherFuncObj
                                   ELSE FalsyObj]]

CursorInit ==
    /\ cfg = [via |-> "run_configuration", interactive |-> TRUE,
              all_lines |-> TRUE, tbreakpoints |-> <<>>, readline |-> TRUE]
    /\ dbg = Construct(cfg)
    /\ prog = TwoFunctions
    /\ obs = ObsInit
    /\ session = "constructed"
    /\ first = "none"
    /\ watch = WatchNone
    /\ DiffIdle

\* run_configuration, lines 246-247, for one path mod.fn or mod.gn
AddFunctionalMock ==
    /\ session = "constructed"
    /\ \E attr \in {"fn", "gn"} :
          /\ RoomFor(<<(<<"mod", attr>>)>>)
          /\ Becomes(do_pf_add_functional_mocks(
                         Fresh("pf_add_functional_mocks", <<(<<"mod", attr>>)>>),
                         <<(<<"mod", attr>>)>>), session)

CursorNext ==
    \/ AddFunctionalMock
    \/ Launch
    \/ UserCall
    \/ UserLine
    \/ UserReturn
    \/ OperatorCmd
    \/ Call
    \/ Finish

SpecCursor == CursorInit /\ [][CursorNext]_vars

(***************************************************************************)
(* The watch reloader.  A script path is the pieces of its text between    *)
(* the occurrences of '.py': "a.py" is <<"a", "">>.  The operators below   *)
(* act on st = [w, h]: the world and the handler's record (watch).         *)
(* ScriptFileHandler is a watchdog FileSystemEventHandler: the observer's  *)
(* emitter thread queues the events, and its dispatching thread hands them *)
(* to on_modified / on_moved / on_deleted one at a time.  _runmodule       *)
(* returns when the run has ended, so the thread that handles an event is  *)
(* inside the handler for as long as the run it launched lasts.            *)
(***************************************************************************)
Paths == {<<"a", "">>, <<"b", "">>}

NoPath == <<>>

\* when: what the session was doing as the event arrived
Events(when) ==
    {[type |-> t, dest |-> NoPath, when |-> when] : t \in {"modified", "deleted"}}
    \cup {[type |-> "moved", dest |-> p, when |-> when] : p \in Paths}

Step(h, name) == [h EXCEPT !.steps = Append(@, name)]

\* a handler that keeps the module name it has
keep_module_name(h, script) == Step(h, "_set_module_name")

\* ScriptFileHandler._set_module_name, lines 217-218: script.split('.py')[0]
_set_module_name(h, script) == [Step(h, "_set_module_name") EXCEPT !.module = script[1]]

\* Pdb._runmodule up to the first trace event: bdb.run resets the engine
\* and traces, the module's frame starts with its bindings unset
Pdb_runmodule(w) ==
    [w EXCEPT !.dbg._wait_for_mainpyfile = TRUE,
              !.dbg.stopinfo = "all",
              !.dbg.tracing = TRUE,
              !.dbg.quitting = FALSE,
              !.prog.f_locals = <<>>,
              !.prog.f_globals = <<>>]

\* self.debugger._runmodule(self.module), lines 215 and 222; busy: a run of
\* this debugger had not ended when the call was made
RunModule(st, busy) ==
    [w |-> Pdb_runmodule(st.w),
     h |-> [Step(st.h, "_runmodule") EXCEPT !.launches = @ + 1,
                                            !.launched = st.h.module,
                                            !.queue = st.w.dbg.rcLines,
                                            !.overlap = @ \/ busy]]

\* self.debugger.do_quit(""), lines 221 and 231
Quit(st) == [w |-> do_quit(st.w), h |-> Step(st.h, "do_quit")]

\* ScriptFileHandler.__init__, lines 212-215
ScriptFileHandler_init(st, module) ==
    RunModule([st EXCEPT !.h = _set_module_name([@ EXCEPT !.handler = "made"], module)],
              FALSE)

\* ScriptFileHandler._reload, lines 220-222
_reload(st, busy) == RunModule(Quit(st), busy)

\* ScriptFileHandler.on_moved, lines 224-227
on_moved(st, event, busy) ==
    _reload([st EXCEPT !.h = _set_module_name(@, event.dest)], busy)

\* ScriptFileHandler.on_deleted, lines 229-231
on_deleted(st, event, busy) == [Quit(st) EXCEPT !.h.deleted = TRUE]

\* ScriptFileHandler.on_modified, lines 233-235
on_modified(st, event, busy) == _reload(st, busy)

\* FileSystemEventHandler.dispatch: the method of the event's type
dispatch(st, event, busy) ==
    CASE event.type = "modified" -> on_modified(st, event, busy)
      [] event.type = "moved" -> on_moved(st, event, busy)
      [] OTHER -> on_deleted(st, event, busy)

WatchConfigs ==
    {[via |-> v, interactive |-> FALSE, all_lines |-> TRUE, tbreakpoints |-> <<"f">>,
      readline |-> TRUE, watch |-> (v = "run_configuration"), script |-> p] :
         v \in {"run_configuration", "ScriptFileHandler"}, p \in Paths}

WatchInit ==
    /\ cfg \in WatchConfigs
    /\ dbg = Construct(cfg)
    /\ prog = ProgInit
    /\ obs = ObsInit
    /\ session = "constructed"
    /\ first = "none"
    /\ watch = WatchNone
    /\ DiffIdle

\* what a handler's call leaves: the run it launched, if it launched one
Handled(st, otherwise) ==
    /\ dbg' = st.w.dbg
    /\ prog' = st.w.prog
    /\ obs' = st.w.obs
    /\ watch' = st.h
    /\ session' = IF st.h.launches > watch.launches THEN "running" ELSE otherwise
    /\ first' = IF st.h.launches > watch.launches THEN "none" ELSE first
    /\ UNCHANGED <<cfg, prev, current, diff>>

\* run_configuration, lines 250-252: the observer is given a partial of the
\* class, which nothing calls, and is not started; run_configuration returns
Watch ==
    /\ session = "constructed"
    /\ cfg.watch
    /\ watch' = [watch EXCEPT !.handler = "partial", !.observer = "scheduled"]
    /\ session' = "returned"
    /\ obs' = [ObsInit EXCEPT !.op = "watch"]
    /\ UNCHANGED <<cfg, dbg, prog, first, prev, current, diff>>

\* ScriptFileHandler(dbg, script), for a debugger made as AutomatedPdb('f')
NewHandler ==
    /\ session = "constructed"
    /\ cfg.via = "ScriptFileHandler"
    /\ Handled(ScriptFileHandler_init(
                   [w |-> Fresh("ScriptFileHandler", <<>>),
                    h |-> [watch EXCEPT !.by = "init"]], cfg.script), session)

\* the handler exists once __init__ has returned: its first run has ended
\* and did not raise
HandlerExists ==
    /\ watch.handler = "made"
    /\ ~(watch.launches = 1 /\ session \in {"running", "prompt", "crashed"})

\* the emitter thread queues an event of the watched path
Emit ==
    /\ HandlerExists
    /\ Len(watch.pending) < MaxPending
    /\ \E e \in Events(IF session # "running" THEN "ended"
                        ELSE IF obs.hit # "none" THEN "breakpoint" ELSE "running") :
          watch' = [watch EXCEPT !.pending = Append(@, e)]
    /\ UNCHANGED <<cfg, dbg, prog, obs, session, first, prev, current, diff>>

\* a dispatching thread that takes an event at any time
DispatcherAny == TRUE

\* the dispatching thread is free: it is not inside a handler whose
\* _runmodule has not returned, and no handler has raised in it
DispatcherFree == session \in {"finished", "quit"}

\* the dispatching thread takes the next event to the handler
Dispatch ==
    /\ HandlerExists
    /\ watch.pending # <<>>
    /\ DispatcherFree
    /\ Head(watch.pending).type # "deleted" => watch.launches < MaxLaunches
    /\ Handled(dispatch([w |-> Fresh(Head(watch.pending).type, <<>>),
                         h |-> [watch EXCEPT !.pending = Tail(@),
                                             !.by = Head(watch.pending).type,
                                             !.when = Head(watch.pending).when,
                                             !.steps = <<>>,
                                             !.was = watch.module]],
                        Head(watch.pending), session \in {"running", "prompt"}),
               "quit")

WatchNext ==
    \/ Watch
    \/ NewHandler
    \/ Emit
    \/ Dispatch
    \/ UserCall
    \/ UserLine
    \/ BreakpointHit
    \/ UserReturn
    \/ Finish

SpecWatch == WatchInit /\ [][WatchNext]_vars

\* every step that can be taken is taken in the end: the threads run
SpecWatchLive == SpecWatch /\ WF_vars(WatchNext)

(***************************************************************************)
(* Properties.                                                             *)
(***************************************************************************)
KeysOf(d) == {d[i].k : i \in 1..Len(d)}

Range(q) == {q[i] : i \in 1..Len(q)}

\* the Change Records the data model asks of a diff of P against C
ExpectedRecords(P, C) ==
    {Created(k, GetItem(C, k)) : k \in KeysOf(C) \ KeysOf(P)}
    \cup {Deleted(k, GetItem(P, k)) : k \in KeysOf(P) \ KeysOf(C)}
    \cup {Modified(k, GetItem(P, k), GetItem(C, k)) :
              k \in {j \in KeysOf(P) \cap KeysOf(C) : GetItem(P, j) # GetItem(C, j)}}

DiffEnded == diff.status \in {"returned", "raised"}

\* C1: with a previous snapshot present, _monitor_changes returns and has
\* emitted exactly one Created record per key only in current, one Deleted
\* per key only in prev, one Modified per key in both with unequal values,
\* and nothing else: no key has two records.
C1_DiffEmitsExactRecords ==
    (DiffEnded /\ ~prev.isNone) =>
        /\ diff.status = "returned"
        /\ Range(diff.records) = ExpectedRecords(prev.items, current)
        /\ Len(diff.records) = Cardinality(ExpectedRecords(prev.items, current))

\* C2: with no previous snapshot (None), _monitor_changes returns normally
\* and has emitted no Change Record, whatever the current snapshot.
C2_AbsentBaselineNoRecords ==
    (DiffEnded /\ prev.isNone) =>
        /\ diff.status = "returned"
        /\ diff.records = <<>>

\* the reports of one double, in the order they were made
ReportsOf(reported, name) == SelectSeq(reported, LAMBDA r : r.name = name)

\* the calls a double has recorded beyond the cursor kept under name
NewCalls(name, mock) ==
    SubSeq(prog.mocks[mock.id].calls, Len(prev_calls(World, name)) + 1,
           Len(prog.mocks[mock.id].calls))

\* a step in which report-all-side-effects ran, from the queue or typed
CheckAllStep == \E i \in 1..Len(obs'.ran) : obs'.ran[i] = "pf_side_effects"

\* what check(name, double) is to do for the double f = [name, mock] in
\* that step: report the new calls in call order, move the cursor up to
\* the call count
Checked(f) ==
    /\ ReportsOf(obs'.reported, f.name)
           = [i \in 1..Len(NewCalls(f.name, f.mock)) |->
                  [name |-> f.name, call |-> NewCalls(f.name, f.mock)[i]]]
    /\ HasKey(dbg'._mock_calls, f.name)
    /\ Len(GetItem(dbg'._mock_calls, f.name)) = Len(prog.mocks[f.mock.id].calls)

\* C3: every check of a double reports exactly the calls made since the
\* previous check of that double, in call order, and advances the cursor
\* to the call count (so a check with no new call reports nothing and
\* leaves the cursor where it was).
C3_CheckReportsNewCalls ==
    [][CheckAllStep =>
          /\ obs'.exc = "none"
          /\ \A f \in Range(_find_mocks(World)) : Checked(f)]_vars

\* a step that registers the one path obs'.arg[1] by pf_register_mocks
RegisterStep == obs'.op = "pf_register_mocks"

\* C4: register(path) is idempotent: the registry never holds two entries
\* for one dotted path, and registering a path it already holds returns
\* the object held, changes nothing in the registry and does not resolve
\* the path again.
C4_RegisterIdempotent ==
    [][/\ IsDict(dbg'._modules_with_mocks)
       /\ (RegisterStep /\ HasKey(dbg._modules_with_mocks, obs'.arg[1])) =>
              /\ dbg'._modules_with_mocks = dbg._modules_with_mocks
              /\ obs'.obj = GetItem(dbg._modules_with_mocks, obs'.arg[1])
              /\ obs'.imports = 0
              /\ obs'.exc = "none"]_vars

\* a path registered while mod.fn was a function is registered again after
\* mod.fn was replaced by a Mock
C4_Witness ==
    /\ obs.op = "pf_register_mocks"
    /\ obs.arg = <<(<<"mod", "fn">>)>>
    /\ obs.imports = 0
    /\ obs.obj = FuncObj
    /\ prog.attrs["fn"].kind = "mock"

Resumes(names) == {i \in 1..Len(names) : names[i] \in ResumeCommands}

\* C5: at a pause the automated controller queues at most one resume
\* command (next or cont), runs at most one, and runs no queued command
\* after it: the resume is the last command of the pause, and the queue
\* never holds two of them.
C5_OneResumePerPause ==
    dbg.class = "AutomatedPdb" =>
        /\ Cardinality(Resumes(obs.enqueued)) <= 1
        /\ Cardinality(Resumes(obs.ran)) <= 1
        /\ \A i \in Resumes(obs.ran) : i = Len(obs.ran)
        /\ Cardinality(Resumes([i \in 1..Len(dbg.rcLines) |-> dbg.rcLines[i].name])) <= 1

\* a Line pause that found the queue empty, queued its lines and resumed
C5_Witness ==
    /\ dbg.class = "AutomatedPdb"
    /\ obs.pause = "line"
    /\ obs.wasEmpty
    /\ Resumes(obs.enqueued) = {Len(obs.enqueued)}
    /\ Len(obs.ran) = 5
    /\ obs.ran[5] = "next"
    /\ session = "running"

\* C6: at a Line pause in automated mode with an empty queue the controller
\* runs report-call-args, diff-locals, diff-globals and
\* report-all-side-effects, in this order, then advance-to-next-line: each
\* line it queues names the command of the controller it stands for.
C6_LinePauseRunsDiffs ==
    (dbg.class = "AutomatedPdb" /\ obs.pause = "line" /\ obs.wasEmpty
     /\ obs.interacted) =>
        obs.ran = <<"args", "pf_locals_changes", "pf_globals_changes",
                    "pf_side_effects", "next">>

\* C7: a session asked to be interactive queues, at an Entry pause with an
\* empty queue, report-call-args and report-side-effect-diffs and nothing
\* else; at no pause does it queue a resume command, and the pause ends at
\* the operator's prompt.
C7_InteractiveNeverAutoResumes ==
    (cfg.interactive /\ obs.pause # "none" /\ obs.op # "operator") =>
        /\ Resumes(obs.enqueued) = {}
        /\ (obs.pause = "call" /\ obs.wasEmpty /\ obs.interacted) =>
               obs.enqueued = <<"args", "pf_side_effects">>
        /\ (obs.interacted /\ obs.exc = "none") => session = "prompt"

\* C8: a controller made for a designated entry function, by
\* run_configuration too, starts with the queue "tbreak <entry function>",
\* "cont", and the first pause whose queued lines run a report is the pause
\* at that temporary breakpoint.
C8_StartupQueue ==
    Len(cfg.tbreakpoints) = 1 =>
        /\ session = "constructed" =>
               dbg.rcLines = <<RcLine("tbreak", Text(EntryFunction)), Cmd("cont")>>
        /\ first \in {"none", "entry"}

\* a call made by the debugged program to an attribute that holds a Mock
MockCallStep == obs'.op = "program_call" /\ prog.attrs[obs'.arg[1]].kind = "mock"

CalledMock == prog.mocks[prog.attrs[obs'.arg[1]].id]

\* C9: every call to an installed double is recorded; a forwarding double
\* runs the original with the same argument and returns its result
\* (fn(x) = x + 1), a non-forwarding one never runs the original; and
\* report-all-side-effects then reports exactly the recorded calls.
C9_DoubleRecordsAndForwards ==
    [][/\ MockCallStep =>
              /\ prog'.mocks[prog.attrs[obs'.arg[1]].id].calls
                     = Append(CalledMock.calls, obs'.arg[2])
              /\ CalledMock.side_effect = FuncObj =>
                     /\ obs'.origRuns = 1
                     /\ obs'.ret = [kind |-> "int", v |-> obs'.arg[2] + 1]
              /\ CalledMock.side_effect = NoneObj => obs'.origRuns = 0
       /\ CheckAllStep =>
              /\ obs'.exc = "none"
              /\ \A f \in Range(_find_mocks(World)) :
                     Len(ReportsOf(obs'.reported, f.name))
                         = Len(NewCalls(f.name, f.mock))]_vars

\* a step that installs a double on the one path mod.<attr>
InstallStep ==
    /\ obs'.op \in {"pf_add_mocks", "pf_add_functional_mocks"}
    /\ Len(obs'.arg) = 1
    /\ obs'.arg[1][1] \in Modules

InstallAttr == obs'.arg[1][2]

\* C10: install reports that the attribute is not found, and replaces
\* nothing, exactly when the parent has no such attribute; an attribute
\* that exists, whatever its value, is replaced by a Mock.  The error case
\* leaves the target untouched and the session running.
C10_InstallReplacesExisting ==
    [][InstallStep =>
          IF InstallAttr \in DOMAIN prog.attrs
          THEN /\ prog'.attrs[InstallAttr] = MockObj(Len(prog.mocks) + 1)
               /\ obs'.printed = <<[text |-> "Replaced", attr |-> InstallAttr]>>
          ELSE /\ prog' = prog
               /\ obs'.printed = <<[text |-> "There is no attribute",
                                    attr |-> InstallAttr]>>
               /\ obs'.exc = "none"
               /\ session' = session]_vars

\* a step in which the operator's command name ran at the prompt
Typed(name) == obs'.op = "operator" /\ obs'.arg = <<name>>

\* the records a diff of the stored baseline against snapshot is to give
BaselineRecords(baseline, snapshot) ==
    IF baseline.isNone THEN {} ELSE ExpectedRecords(baseline.items, snapshot)

\* C14: diff-locals compares the current locals with the locals baseline
\* and then stores the current locals as that baseline, diff-globals does
\* the same with the globals and the globals baseline, and neither reads
\* nor writes the baseline of the other scope.
C14_ScopesIndependent ==
    [][/\ Typed("pf_locals_changes") =>
              /\ obs'.exc = "none"
              /\ Range(obs'.changes) = BaselineRecords(dbg._locals, prog.f_locals)
              /\ dbg'._locals = Some(prog.f_locals)
              /\ dbg'._globals = dbg._globals
       /\ Typed("pf_globals_changes") =>
              /\ obs'.exc = "none"
              /\ Range(obs'.changes) = BaselineRecords(dbg._globals, prog.f_globals)
              /\ dbg'._globals = Some(prog.f_globals)
              /\ dbg'._locals = dbg._locals]_vars

\* C17: at an Entry pause of an automated controller with an empty queue,
\* the resume command queued after the two reports is next when the
\* line-granularity flag given at construction is true and cont when it is
\* false.
C17_EntryResumeFollowsFlag ==
    (cfg.via = "AutomatedPdb" /\ ~cfg.interactive /\ obs.pause = "call"
     /\ obs.op # "operator" /\ obs.wasEmpty) =>
        obs.enqueued = <<"args", "pf_side_effects",
                         IF cfg.all_lines THEN "next" ELSE "cont">>

\* C18: at a Return pause of an automated controller with an empty queue,
\* the lines queued are args, pf_side_effects and cont, and the pause goes
\* to the engine's return handling (Pdb.user_return), not to its line
\* handling.
C18_ReturnPauseIsReturn ==
    (dbg.class = "AutomatedPdb" /\ obs.pause = "return" /\ obs.op # "operator"
     /\ obs.wasEmpty) =>
        /\ obs.enqueued = <<"args", "pf_side_effects", "cont">>
        /\ obs.base = "user_return"

\* the doubles the registry leads to, each with the path it is found under
\* and its own name
RegisteredDoubles ==
    UNION {{[path |-> dbg._modules_with_mocks[i].k, name |-> f.name, mock |-> f.mock] :
               f \in Range(_find_mocks_in_object(prog, dbg._modules_with_mocks[i].k,
                                                 dbg._modules_with_mocks[i].v))} :
           i \in 1..Len(dbg._modules_with_mocks)}

StartupQueue == <<RcLine("tbreak", Text(EntryFunction)), Cmd("cont")>>

\* a step in which the handler launched a run for an event
Relaunch == watch'.launches = watch.launches + 1 /\ watch'.by # "init"

\* C11: a modified event that arrived while the controller was paused at a
\* breakpoint makes the handler quit the controller and then run the same
\* script again; the new run starts with the startup queue (tbreak at the
\* entry function, cont), so its first pause with reports is at that
\* breakpoint.
C11_ModifiedRestartsAtEntry ==
    (watch.by = "modified" /\ watch.when = "breakpoint") =>
        /\ watch.steps = <<"do_quit", "_runmodule">>
        /\ watch.launched = watch.was
        /\ watch.queue = StartupQueue
        /\ first \in {"none", "entry"}

\* C12: a deleted event makes the handler quit and launch nothing, and
\* once one was handled no later event launches a run.
C12_DeletedIsTerminal ==
    [][/\ (obs'.op = "deleted" /\ obs.op # "deleted") =>
              /\ watch'.steps = <<"do_quit">>
              /\ dbg'.quitting
              /\ watch'.launches = watch.launches
       /\ watch.deleted => watch'.launches = watch.launches]_vars

\* a step that hands a pause to the controller
PauseStep == obs'.pause # "none" /\ obs' # obs

\* a step in which the handler takes an event
EventStep == watch'.pending # watch.pending /\ Len(watch'.pending) < Len(watch.pending)

C15_MovedRunsDestination ==
    [][(Relaunch /\ watch'.by = "moved") =>
          /\ watch'.steps = <<"_set_module_name", "do_quit", "_runmodule">>
          /\ watch'.module = Head(watch.pending).dest[1]
          /\ watch'.launched = Head(watch.pending).dest[1]]_vars

\* a run of b launched for a move of the script a.py to b.py
C15_Witness ==
    /\ watch.by = "moved"
    /\ watch.was = "a"
    /\ watch.launched = "b"
    /\ session = "running"

\* C19: right after the handler's quit and relaunch the controller holds
\* no locals or globals baseline and no call cursor, and its queue is the
\* startup queue, whatever the run before left.
C19_NothingSurvivesRestart ==
    [][Relaunch =>
          /\ dbg'._locals = None
          /\ dbg'._globals = None
          /\ dbg'._mock_calls = <<>>
          /\ dbg'.rcLines = StartupQueue]_vars

\* C20: run_configuration with watch set leads to a ScriptFileHandler that
\* owns the controller and to a run of the script launched by it.
C20_WatchLaunches ==
    (session = "constructed" /\ cfg.watch) ~>
        (watch.handler = "made" /\ watch.launches > 0 /\ session = "running")

=============================================================================
